---- MODULE Spec2Model ----
(***************************************************************************)
(* rseng-activity: the checkpointed collection pipeline of                 *)
(* measure-activity.py (DateBundle phase, last-commit phase, terminal      *)
(* combination step) and the longevity classifier of plot-activity.py.     *)
(***************************************************************************)
EXTENDS Integers, Sequences, FiniteSets, TLC

\* ------------------------------------------------------------------ bounds

\* Display timestamps of the collection pipeline are 1..MaxStamp.
MaxStamp == 2
\* creation_date's display timestamps are 1..MaxCreated.
MaxCreated == 1
\* Number of runs (first run plus restarts) on one output directory.
MaxRuns == 2
\* Longest catalog enumerated by pedia.list().
MaxCatalog == 2

\* Most rows of results.json read by the classifier.
MaxRepos == 2

\* ------------------------------------------------------- values of the code

\* plot-activity.py: months = range(0, 41); long-term sets from month 24 on.
LastMonth == 40
LongTerm == 24

\* Python's None where a date is expected (look_for_doi returns doi, None).
NoDate == 0
Stamps == 1..MaxStamp
CreatedStamps == 1..MaxCreated

\* Source-control URLs of catalog entries; PyNone is an entry whose url is None.
URLS == {"h/a", "h/b"}
PyNone == "<None>"
\* json.dumps writes the key None as the string "null".
JsonNull == "null"

\* DOI identifiers: the ones that contain the substring "zenodo", and others.
ZenodoIds == {"10.5281/zenodo.1"}
NoDoi == "None"

\* repo.data's doi field: None (ids empty, not a list), one string, or a list.
DoiInputs ==
    { [list |-> FALSE, ids |-> <<>>],
      [list |-> FALSE, ids |-> <<"10.5281/zenodo.1">>],
      [list |-> FALSE, ids |-> <<"10.1000/xyz">>],
      [list |-> TRUE, ids |-> <<"10.1000/xyz", "10.5281/zenodo.1">>],
      [list |-> TRUE, ids |-> <<"10.5281/zenodo.1", "10.1000/xyz">>] }

\* The doi field of an entry that has none.
NoDoiData == [list |-> FALSE, ids |-> <<>>]

\* Catalogs: pedia.list() in enumeration order, urls distinct, at most one
\* entry without url.
Entries == URLS \cup {PyNone}
Catalogs ==
    { c \in UNION { [1..n -> Entries] : n \in 0..MaxCatalog } :
        \A a, b \in DOMAIN c : a # b => c[a] # c[b] }

\* ------------------------------------------------------------------- state

VARIABLES
    catalog,        \* repos of the current run (pedia.list())
    added_json,     \* contents of rsepedia-times.json
    times_json,     \* contents of last-commit-times.json
    results_json,   \* contents of results.json
    added,          \* in-memory DateBundle store
    meta,           \* in-memory ActivityRecord store
    pc,             \* position of the run
    i,              \* loop index into catalog (1-based)
    dest,           \* clone destination of the current entry, or NoDest
    scratch,        \* subdirectories of tempdir that exist
    exit_status,    \* process exit status of the last ended run, -1 while running
    runs,           \* number of runs started
    ops,            \* external operations performed by the last step
    wrote_results,  \* results.json was written by the current run
    pristine,       \* the output directory was empty before the first run
    prev,           \* whether this run repeats a completed run on the same catalog,
                    \* and both stores as this run found them
    doi_data,       \* repo.data's doi field read by the last step
    \* plot-activity.py
    results,        \* rows of the results.json given with --results
    today,          \* datetime.now() at import
    df,             \* the data frame of prepare_data_frame
    month,          \* loop variable of derive_high_valued
    updated_at_period,      \* absolute counts, one per month done
    updated_percents,       \* percentages <<numerator, denominator>>, one per month done
    high_valued,            \* month -> repos, months >= 24
    high_valued_relative,   \* month -> repos, months >= 24
    high_valued_global,     \* set of repos
    cpc             \* position of the classifier

pvars == <<catalog, added_json, times_json, results_json, added, meta, pc, i,
           dest, scratch, exit_status, runs, ops, wrote_results, pristine,
           prev, doi_data>>
cvars == <<results, today, df, month, updated_at_period, updated_percents,
           high_valued, high_valued_relative, high_valued_global, cpc>>
vars == <<pvars, cvars>>

NoDest == "<NoDest>"
Empty == << >>

\* ------------------------------------------------------------ pure helpers

\* os.path.basename(url)
BaseName(url) ==
    CASE url = "h/a" -> "a"
      [] url = "h/b" -> "b"
      [] OTHER -> url

\* write_json of a dict followed by read_json: the key None becomes "null";
\* when both None and "null" are keys the later one (None, inserted after the
\* loaded "null") is what a reader keeps.
JsonKey(k) == IF k = PyNone THEN JsonNull ELSE k
Dump(m) ==
    [ k \in { JsonKey(x) : x \in DOMAIN m } |->
        IF k = JsonNull /\ PyNone \in DOMAIN m THEN m[PyNone] ELSE m[k] ]

\* dict assignment m[k] = v
Put(m, k, v) == [ x \in DOMAIN m \cup {k} |-> IF x = k THEN v ELSE m[x] ]

\* look_for_doi up to the HTTP request: the identifier it settles on.
SelectDoi(dd) == IF dd.ids = <<>> THEN NoDoi ELSE dd.ids[1]

\* look_for_doi: whether the identifier is looked up at zenodo.
NeedsLookup(doi) == doi # NoDoi /\ doi \in ZenodoIds

\* Outcomes of a request that does not raise: a record without "metadata"
\* (NoDate), or the record's publication date.
Responses == {NoDate} \cup Stamps
\* look_for_doi, given the response to its request (if it makes one).
LookForDoi(dd, resp) ==
    LET doi == SelectDoi(dd) IN
    IF NeedsLookup(doi)
    THEN [doi |-> doi, published |-> resp]
    ELSE [doi |-> doi, published |-> NoDate]

\* Mutant of Published: the DOI-derived date is ignored.
PublishedAddDateOnly(bundle) == bundle.created_at

\* The ReconciledRecord of main's terminal combination step.
Published(bundle) ==
    IF bundle.published # NoDate THEN bundle.published ELSE bundle.created_at
Reconcile(bundle, timestamp) ==
    [ last_commit |-> timestamp,
      added_rsepedia |-> bundle.created_at,
      zenodo_published |-> bundle.published,
      published |-> Published(bundle),
      doi |-> bundle.doi ]

\* The process has ended: its memory and its tempdir are out of reach.
ProcessGone ==
    /\ added' = Empty
    /\ meta' = Empty
    /\ i' = 1
    /\ dest' = NoDest
    /\ scratch' = {}

Running == pc \in {"dates", "clone", "cleanup", "save", "combine"}

\* ------------------------------------------------- classifier: pure helpers

\* A timestamp is <<year, month, day, time of day>>; time of day 0 is midnight.
\* Gregorian month lengths, as pandas.DateOffset uses them.
IsLeap(y) == (y % 4 = 0 /\ y % 100 # 0) \/ y % 400 = 0
DaysIn(y, m) ==
    CASE m = 2 -> IF IsLeap(y) THEN 29 ELSE 28
      [] m \in {4, 6, 9, 11} -> 30
      [] OTHER -> 31

\* ts + pandas.DateOffset(months=k): the day is clamped to the month's end.
DateOffset(ts, k) ==
    LET total == ts[1] * 12 + (ts[2] - 1) + k
        y == total \div 12
        m == (total % 12) + 1
    IN <<y, m, IF ts[3] > DaysIn(y, m) THEN DaysIn(y, m) ELSE ts[3], ts[4]>>

\* a < b on timestamps
Before(a, b) ==
    \/ a[1] < b[1]
    \/ a[1] = b[1] /\ a[2] < b[2]
    \/ a[1] = b[1] /\ a[2] = b[2] /\ a[3] < b[3]
    \/ a[1] = b[1] /\ a[2] = b[2] /\ a[3] = b[3] /\ a[4] < b[4]

\* prepare_data_frame: value.split(" ")[0] then to_datetime: the day, at midnight.
DayOf(ts) == <<ts[1], ts[2], ts[3], 0>>
PrepareDataFrame(data) ==
    [ r \in DOMAIN data |->
        [ last_commit_date |-> DayOf(data[r].last_commit),
          published_date |-> DayOf(data[r].published) ] ]

\* Mutant of IsHighValue: a last commit exactly at the boundary counts.
IsHighValueOrEqual(r, m) ==
    ~Before(df[r].last_commit_date, DateOffset(df[r].published_date, m))

\* derive_high_valued, one month: the columns and row selections.
PostAdd(r, m) == DateOffset(df[r].published_date, m)
IsNotFuture(r, m) == Before(PostAdd(r, m), today)
IsHighValue(r, m) == Before(PostAdd(r, m), df[r].last_commit_date)
NotFuture(m) == { r \in DOMAIN df : IsNotFuture(r, m) }
\* Mutant of UpdatedRepos: the comparison of line 94 is turned around.
UpdatedReposReversed(m) ==
    { r \in DOMAIN df : Before(df[r].last_commit_date, PostAdd(r, m)) }

UpdatedRepos(m) == { r \in DOMAIN df : IsHighValue(r, m) }
\* Mutant of Relative: the test of the next month (line 114) is left out.
RelativeAllNotFuture(m) == NotFuture(m)

\* the test of line 114 for the one row of a repo
NextMonthAhead(r, m) == Before(today, DateOffset(df[r].published_date, m + 1))
Relative(m) == { r \in NotFuture(m) : NextMonthAhead(r, m) }

\* Inputs: published and last_commit fields of results.json, and clocks.
PublishedInputs ==
    { <<2020, 1, 1, 0>>, <<2022, 6, 1, 1>>, <<2019, 8, 31, 0>>, <<2020, 1, 1, 1>> }
LastCommitInputs ==
    { <<2022, 6, 1, 0>>, <<2022, 1, 1, 1>>, <<2024, 3, 1, 0>>, <<2020, 2, 29, 1>> }
Todays == { <<2023, 1, 1, 0>>, <<2023, 1, 1, 1>>, <<2022, 12, 31, 1>> }
ResultsInputs ==
    UNION { [1..n -> [published : PublishedInputs, last_commit : LastCommitInputs]] :
              n \in 0..MaxRepos }

\* ------------------------------------------------------------------- Init

\* Stores found in the output directory before the first run: none, or ones
\* left there by something else.
InitAdded ==
    { Empty,
      [k \in {"h/a"} |-> [created_at |-> 1, doi |-> NoDoi, published |-> NoDate]] }
InitTimes == {Empty} \cup { [k \in {u} |-> 1] : u \in URLS }

\* The classifier is not running.
ClassifierIdle ==
    /\ results = Empty
    /\ today = <<2023, 1, 1, 0>>
    /\ df = Empty
    /\ month = 0
    /\ updated_at_period = <<>>
    /\ updated_percents = <<>>
    /\ high_valued = Empty
    /\ high_valued_relative = Empty
    /\ high_valued_global = {}
    /\ cpc = "idle"

Init ==
    /\ catalog \in Catalogs
    /\ added_json \in InitAdded
    /\ times_json \in InitTimes
    /\ results_json = Empty
    /\ added = Empty
    /\ meta = Empty
    /\ pc = "start"
    /\ i = 1
    /\ dest = NoDest
    /\ scratch = {}
    /\ exit_status = -1
    /\ runs = 1
    /\ ops = {}
    /\ wrote_results = FALSE
    /\ pristine = (added_json = Empty /\ times_json = Empty)
    /\ prev = [rerun |-> FALSE, added |-> added_json, times |-> times_json]
    /\ doi_data = NoDoiData
    /\ ClassifierIdle

\* ---------------------------------------------------------------- actions

\* Mutant of Start: the stores of an earlier run are not loaded.
StartWithoutStores ==
    /\ pc = "start"
    /\ meta' = Empty
    /\ added' = Empty
    /\ i' = 1
    /\ pc' = "dates"
    /\ ops' = {}
    /\ UNCHANGED <<catalog, added_json, times_json, results_json, dest, scratch,
                   exit_status, runs, wrote_results, pristine, prev, cvars>>
    /\ doi_data' = NoDoiData

\* Mutant of Start: rsepedia-times.json is not loaded.
StartWithoutDateBundles ==
    /\ pc = "start"
    /\ meta' = times_json
    /\ added' = Empty
    /\ i' = 1
    /\ pc' = "dates"
    /\ ops' = {}
    /\ UNCHANGED <<catalog, added_json, times_json, results_json, dest, scratch,
                   exit_status, runs, wrote_results, pristine, prev, cvars>>
    /\ doi_data' = NoDoiData

\* main lines 147-177 and derive_creation_timestamps lines 102-110: load both
\* stores (a missing file loads as the empty mapping).
Start ==
    /\ pc = "start"
    /\ meta' = times_json
    /\ added' = added_json
    /\ i' = 1
    /\ pc' = "dates"
    /\ ops' = {}
    /\ UNCHANGED <<catalog, added_json, times_json, results_json, dest, scratch,
                   exit_status, runs, wrote_results, pristine, prev, cvars>>
    /\ doi_data' = NoDoiData

\* derive_creation_timestamps lines 112-116: an entry already in added.
DateSkip ==
    /\ pc = "dates"
    /\ i <= Len(catalog)
    /\ catalog[i] \in DOMAIN added
    /\ i' = i + 1
    /\ ops' = {}
    /\ UNCHANGED <<catalog, added_json, times_json, results_json, added, meta, pc,
                   dest, scratch, exit_status, runs, wrote_results, pristine, prev, cvars>>
    /\ doi_data' = NoDoiData

\* derive_creation_timestamps lines 117-122, every call succeeding.
DateEntry ==
    /\ pc = "dates"
    /\ i <= Len(catalog)
    /\ catalog[i] \notin DOMAIN added
    /\ \E dd \in DoiInputs, resp \in Responses, created_at \in CreatedStamps :
         LET r == LookForDoi(dd, resp) IN
         /\ added' = Put(added, catalog[i],
                         [created_at |-> created_at, doi |-> r.doi, published |-> r.published])
         /\ ops' = {<<"log", catalog[i]>>}
                     \cup (IF NeedsLookup(r.doi) THEN {<<"doi", catalog[i]>>} ELSE {})
         /\ doi_data' = dd
    /\ i' = i + 1
    /\ UNCHANGED <<catalog, added_json, times_json, results_json, meta, pc,
                   dest, scratch, exit_status, runs, wrote_results, pristine, prev, cvars>>

\* derive_creation_timestamps lines 117-121: requests.get / r.json() raise in
\* look_for_doi, or check_output raises in creation_date; nothing catches it,
\* and the process ends with a traceback.
DateRaise ==
    /\ pc = "dates"
    /\ i <= Len(catalog)
    /\ catalog[i] \notin DOMAIN added
    /\ \E dd \in DoiInputs, in_lookup \in BOOLEAN :
         /\ in_lookup => NeedsLookup(SelectDoi(dd))
         /\ doi_data' = dd
         /\ ops' = (IF NeedsLookup(SelectDoi(dd)) THEN {<<"doi", catalog[i]>>} ELSE {})
                     \cup (IF in_lookup THEN {} ELSE {<<"log", catalog[i]>>})
    /\ pc' = "failed"
    /\ exit_status' = 1
    /\ ProcessGone
    /\ UNCHANGED <<catalog, added_json, times_json, results_json,
                   runs, wrote_results, pristine, prev, cvars>>

\* derive_creation_timestamps line 123 and main line 178: the first write of
\* rsepedia-times.json.
WriteAdded ==
    /\ pc = "dates"
    /\ i > Len(catalog)
    /\ added_json' = Dump(added)
    /\ i' = 1
    /\ pc' = "clone"
    /\ ops' = {}
    /\ UNCHANGED <<catalog, times_json, results_json, added, meta,
                   dest, scratch, exit_status, runs, wrote_results, pristine, prev, cvars>>
    /\ doi_data' = NoDoiData

\* main lines 184-187: no url, or a url already in meta.
CloneSkip ==
    /\ pc = "clone"
    /\ i <= Len(catalog)
    /\ (catalog[i] = PyNone \/ catalog[i] \in DOMAIN meta)
    /\ i' = i + 1
    /\ ops' = {}
    /\ UNCHANGED <<catalog, added_json, times_json, results_json, added, meta, pc,
                   dest, scratch, exit_status, runs, wrote_results, pristine, prev, cvars>>
    /\ doi_data' = NoDoiData

\* Mutant of CloneGuard: a url already in meta is cloned again.
CloneGuardAnyUrl ==
    /\ pc = "clone"
    /\ i <= Len(catalog)
    /\ catalog[i] # PyNone

CloneGuard ==
    /\ pc = "clone"
    /\ i <= Len(catalog)
    /\ catalog[i] # PyNone
    /\ catalog[i] \notin DOMAIN meta

\* main lines 189-195: clone returns dest and last_commit returns a timestamp.
CloneOk ==
    /\ CloneGuard
    /\ \E timestamp \in Stamps : meta' = Put(meta, catalog[i], timestamp)
    /\ dest' = BaseName(catalog[i])
    /\ scratch' = scratch \cup {BaseName(catalog[i])}
    /\ pc' = "cleanup"
    /\ ops' = {<<"clone", catalog[i]>>}
    /\ UNCHANGED <<catalog, added_json, times_json, results_json, added, i,
                   exit_status, runs, wrote_results, pristine, prev, cvars>>
    /\ doi_data' = NoDoiData

\* clone lines 31-33 and main lines 192-194: git clone exits non-zero, clone
\* returns None and main continues with the next entry. Whether git left
\* the destination directory behind is not decided by this code.
CloneFailed ==
    /\ CloneGuard
    /\ \E left \in BOOLEAN :
         scratch' = IF left THEN scratch \cup {BaseName(catalog[i])} ELSE scratch
    /\ dest' = NoDest
    /\ i' = i + 1
    /\ ops' = {<<"clone", catalog[i]>>}
    /\ UNCHANGED <<catalog, added_json, times_json, results_json, added, meta, pc,
                   exit_status, runs, wrote_results, pristine, prev, cvars>>
    /\ doi_data' = NoDoiData

\* Mutant of CloneRaise: the exception of clone is not caught.
CloneRaiseUncaught ==
    /\ CloneGuard
    /\ pc' = "failed"
    /\ exit_status' = 1
    /\ ops' = {<<"clone", catalog[i]>>}
    /\ ProcessGone
    /\ UNCHANGED <<catalog, added_json, times_json, results_json,
                   runs, wrote_results, pristine, prev, cvars>>
    /\ doi_data' = NoDoiData

\* main lines 192, 197-198: clone raises; dest stays None.
CloneRaise ==
    /\ CloneGuard
    /\ \E left \in BOOLEAN :
         scratch' = IF left THEN scratch \cup {BaseName(catalog[i])} ELSE scratch
    /\ dest' = NoDest
    /\ pc' = "cleanup"
    /\ ops' = {<<"clone", catalog[i]>>}
    /\ UNCHANGED <<catalog, added_json, times_json, results_json, added, meta, i,
                   exit_status, runs, wrote_results, pristine, prev, cvars>>
    /\ doi_data' = NoDoiData

\* main lines 192-198: clone returns dest and last_commit raises.
ExtractRaise ==
    /\ CloneGuard
    /\ dest' = BaseName(catalog[i])
    /\ scratch' = scratch \cup {BaseName(catalog[i])}
    /\ pc' = "cleanup"
    /\ ops' = {<<"clone", catalog[i]>>}
    /\ UNCHANGED <<catalog, added_json, times_json, results_json, added, meta, i,
                   exit_status, runs, wrote_results, pristine, prev, cvars>>
    /\ doi_data' = NoDoiData

\* main lines 200-202: nothing to remove, or shutil.rmtree succeeds.
CleanupOk ==
    /\ pc = "cleanup"
    /\ scratch' = IF dest # NoDest THEN scratch \ {dest} ELSE scratch
    /\ pc' = "save"
    /\ ops' = {}
    /\ UNCHANGED <<catalog, added_json, times_json, results_json, added, meta, i,
                   dest, exit_status, runs, wrote_results, pristine, prev, cvars>>
    /\ doi_data' = NoDoiData

\* Mutant of CleanupFail: the run exits without writing the store.
CleanupFailNoFlush ==
    /\ pc = "cleanup"
    /\ dest # NoDest
    /\ dest \in scratch
    /\ pc' = "exited"
    /\ exit_status' = 1
    /\ ops' = {}
    /\ ProcessGone
    /\ UNCHANGED <<catalog, added_json, times_json, results_json,
                   runs, wrote_results, pristine, prev, cvars>>
    /\ doi_data' = NoDoiData

\* Mutant of CleanupFail: the flushed store leaves out the entry whose
\* cleanup failed.
CleanupFailDropsCurrent ==
    /\ pc = "cleanup"
    /\ dest # NoDest
    /\ dest \in scratch
    /\ times_json' = Dump([u \in DOMAIN meta \ {catalog[i]} |-> meta[u]])
    /\ pc' = "exited"
    /\ exit_status' = 1
    /\ ops' = {}
    /\ ProcessGone
    /\ UNCHANGED <<catalog, added_json, results_json,
                   runs, wrote_results, pristine, prev, cvars>>
    /\ doi_data' = NoDoiData

\* main lines 202-207: shutil.rmtree raises; the store is written and
\* sys.exit(message) ends the process with status 1.
CleanupFail ==
    /\ pc = "cleanup"
    /\ dest # NoDest
    /\ dest \in scratch
    /\ times_json' = Dump(meta)
    /\ pc' = "exited"
    /\ exit_status' = 1
    /\ ops' = {}
    /\ ProcessGone
    /\ UNCHANGED <<catalog, added_json, results_json,
                   runs, wrote_results, pristine, prev, cvars>>
    /\ doi_data' = NoDoiData

\* main line 210: save as we go.
Save ==
    /\ pc = "save"
    /\ times_json' = Dump(meta)
    /\ i' = i + 1
    /\ dest' = NoDest
    /\ pc' = "clone"
    /\ ops' = {}
    /\ UNCHANGED <<catalog, added_json, results_json, added, meta,
                   scratch, exit_status, runs, wrote_results, pristine, prev, cvars>>
    /\ doi_data' = NoDoiData

\* main line 213: one final save.
FinalSave ==
    /\ pc = "clone"
    /\ i > Len(catalog)
    /\ times_json' = Dump(meta)
    /\ pc' = "combine"
    /\ ops' = {}
    /\ UNCHANGED <<catalog, added_json, results_json, added, meta, i,
                   dest, scratch, exit_status, runs, wrote_results, pristine, prev, cvars>>
    /\ doi_data' = NoDoiData

\* main lines 215-234: the combined results, every lookup added[url] found.
Combine ==
    /\ pc = "combine"
    /\ DOMAIN meta \subseteq DOMAIN added
    /\ results_json' = Dump([url \in DOMAIN meta |-> Reconcile(added[url], meta[url])])
    /\ wrote_results' = TRUE
    /\ pc' = "done"
    /\ exit_status' = 0
    /\ ops' = {}
    /\ ProcessGone
    /\ UNCHANGED <<catalog, added_json, times_json, runs, pristine, prev, cvars>>
    /\ doi_data' = NoDoiData

\* main line 222: added[url] raises KeyError for a url of meta that added
\* lacks; nothing catches it.
CombineRaise ==
    /\ pc = "combine"
    /\ ~(DOMAIN meta \subseteq DOMAIN added)
    /\ pc' = "failed"
    /\ exit_status' = 1
    /\ ops' = {}
    /\ ProcessGone
    /\ UNCHANGED <<catalog, added_json, times_json, results_json,
                   runs, wrote_results, pristine, prev, cvars>>
    /\ doi_data' = NoDoiData

\* The process is killed (or the machine crashes) between two steps.
Kill ==
    /\ Running
    /\ pc' = "killed"
    /\ exit_status' = 137
    /\ ops' = {}
    /\ ProcessGone
    /\ UNCHANGED <<catalog, added_json, times_json, results_json,
                   runs, wrote_results, pristine, prev, cvars>>
    /\ doi_data' = NoDoiData

Ended == pc \in {"done", "failed", "exited", "killed"}

\* The script is run again on the same output directory: a new process, a
\* new tempdir (main line 159), possibly a changed catalog.
Restart ==
    /\ Ended
    /\ runs < MaxRuns
    /\ runs' = runs + 1
    /\ catalog' \in Catalogs
    /\ UNCHANGED <<added, meta, i, dest, scratch>>
    /\ exit_status' = -1
    /\ wrote_results' = FALSE
    /\ pc' = "start"
    /\ ops' = {}
    /\ UNCHANGED <<added_json, times_json, results_json, pristine, cvars>>
    /\ prev' = [rerun |-> (pc = "done" /\ catalog' = catalog),
                 added |-> added_json, times |-> times_json]
    /\ doi_data' = NoDoiData

Next ==
    \/ Start
    \/ DateSkip
    \/ DateEntry
    \/ DateRaise
    \/ WriteAdded
    \/ CloneSkip
    \/ CloneOk
    \/ CloneFailed
    \/ CloneRaise
    \/ ExtractRaise
    \/ CleanupOk
    \/ CleanupFail
    \/ Save
    \/ FinalSave
    \/ Combine
    \/ CombineRaise
    \/ Kill
    \/ Restart

Spec == Init /\ [][Next]_vars

\* ------------------------------------------------ claims: collection pipeline

\* Keys of a store as they stand on disk after a write.
PersistedKeys(m) == DOMAIN Dump(m)

\* C1: in both collection phases the persisted store is rewritten after every
\* processed entry, so wherever the run may be killed the store on disk lacks
\* at most one entry of the in-memory store.
C1_CheckpointEveryEntry ==
    Running =>
        /\ Cardinality(PersistedKeys(added) \ DOMAIN added_json) <= 1
        /\ Cardinality(PersistedKeys(meta) \ DOMAIN times_json) <= 1

\* C2: once a URL is a key of rsepedia-times.json or last-commit-times.json,
\* no step of this run or of a restarted run changes or removes its value, and
\* the phase makes no DOI lookup / add-date log query (resp. no clone) for it.
C2_PersistedNeverRedone ==
    [][ \A u \in URLS :
          /\ u \in DOMAIN added_json =>
                /\ u \in DOMAIN added_json'
                /\ added_json'[u] = added_json[u]
                /\ <<"doi", u>> \notin ops'
                /\ <<"log", u>> \notin ops'
          /\ u \in DOMAIN times_json =>
                /\ u \in DOMAIN times_json'
                /\ times_json'[u] = times_json[u]
                /\ <<"clone", u>> \notin ops' ]_vars

\* C2 witness: a restarted run on a directory filled by the first run has
\* passed, in its DateBundle loop, an entry that both stores already hold.
C2_Witness ==
    /\ pristine
    /\ runs = 2
    /\ pc = "dates"
    /\ i = 2
    /\ catalog[1] \in URLS
    /\ catalog[1] \in DOMAIN added_json
    /\ catalog[1] \in DOMAIN times_json

\* The entry at index i was attempted and produced no ActivityRecord.
EntryFailed == i <= Len(catalog) /\ catalog[i] \in URLS /\ catalog[i] \notin DOMAIN meta

\* What C3 says of the try block (main lines 189-198): a clone that reports
\* failure or raises, or an extraction that raises, records nothing, changes
\* no entry and does not end the run.
C3_TryBlock ==
    (CloneGuard /\ <<"clone", catalog[i]>> \in ops' /\ catalog[i] \notin DOMAIN meta')
        => /\ meta' = meta
           /\ times_json' = times_json
           /\ pc' \in {"clone", "cleanup"}
           /\ pc' = "clone" => i' = i + 1

\* What C3 says of the final save of a failed entry (main line 210).
C3_Save ==
    (pc = "save" /\ EntryFailed /\ pc' # "killed")
        => /\ pc' = "clone"
           /\ i' = i + 1
           /\ meta' = meta
           /\ catalog[i] \notin DOMAIN times_json'
           /\ \A u \in DOMAIN times_json : u \in DOMAIN times_json' /\ times_json'[u] = times_json[u]

\* C3 (as stated): after a failed clone or a raised exception the URL is not
\* recorded, the other entries are unchanged, and the loop always goes on to
\* the next entry: the run is not ended by the program.
C3_AlwaysGoesOn ==
    [][ /\ C3_TryBlock
        /\ C3_Save
        /\ (pc = "cleanup" /\ EntryFailed /\ pc' # "killed")
              => (pc' = "save" /\ meta' = meta /\ times_json' = times_json) ]_vars

\* C3 (amended): as stated, except that when the extraction raised after a
\* successful clone and the removal of the scratch clone directory then fails,
\* the run flushes the unchanged store and terminates.
C3_GoesOnUnlessCleanupFails ==
    [][ /\ C3_TryBlock
        /\ C3_Save
        /\ (pc = "cleanup" /\ EntryFailed /\ pc' # "killed")
              => \/ (pc' = "save" /\ meta' = meta /\ times_json' = times_json)
                 \/ /\ dest # NoDest
                    /\ dest \in scratch
                    /\ pc' = "exited"
                    /\ catalog[i] \notin DOMAIN times_json'
                    /\ \A u \in DOMAIN meta : u \in DOMAIN times_json' /\ times_json'[u] = meta[u] ]_vars

\* C3 witness: on a first run in an empty directory the first entry failed and
\* the second one was recorded.
C3_Witness ==
    /\ pristine
    /\ runs = 1
    /\ pc = "clone"
    /\ Len(catalog) = 2
    /\ i = 3
    /\ catalog[1] \in URLS
    /\ catalog[1] \notin DOMAIN meta
    /\ catalog[2] \in DOMAIN meta
    /\ catalog[2] \in DOMAIN times_json

\* C4: in the DateBundle phase a failure for a single entry (the DOI request
\* or its parsing, the add-date log query) never ends the run.
C4_DateFailureNeverAborts ==
    [][ pc = "dates" => pc' # "failed" ]_vars

\* C5: when removal of the scratch clone directory fails, the run writes the
\* in-memory ActivityRecord store to last-commit-times.json and terminates
\* with a non-zero status; it clones nothing more and writes no results.json.
C5_CleanupFailureFlushesAndExits ==
    [][ /\ (pc # "exited" /\ pc' = "exited")
            => /\ pc = "cleanup"
               /\ times_json' = Dump(meta)
               /\ exit_status' # 0
               /\ ops' = {}
               /\ ~wrote_results'
               /\ results_json' = results_json
        /\ (pc = "exited" /\ runs' = runs)
            => /\ ops' = {}
               /\ ~wrote_results'
               /\ results_json' = results_json ]_vars

\* C5 witness: a first run in an empty directory over a one-entry catalog has
\* exited on a cleanup failure, and the flush is what put the entry on disk.
C5_Witness ==
    /\ pristine
    /\ runs = 1
    /\ pc = "exited"
    /\ Len(catalog) = 1
    /\ catalog[1] \in DOMAIN times_json
    /\ ~wrote_results

\* C6: whatever the two stores loaded at start hold, the combination step
\* raises nothing, and results.json gets exactly the URLs that have both a
\* DateBundle and an ActivityRecord.
C6_CombineNeverRaises ==
    [][ (pc = "combine" /\ pc' # "killed")
          => /\ pc' = "done"
             /\ DOMAIN results_json' = PersistedKeys(added) \cap PersistedKeys(meta) ]_vars

\* C7: published is the DOI-derived date when there is one and the add date
\* otherwise; the other fields are copied from the DateBundle and the
\* ActivityRecord.
C7_ReconciledRecord ==
    [][ (pc = "combine" /\ pc' = "done")
          => \A u \in DOMAIN meta :
               /\ u \in DOMAIN results_json'
               /\ results_json'[u].added_rsepedia = added[u].created_at
               /\ results_json'[u].zenodo_published = added[u].published
               /\ results_json'[u].doi = added[u].doi
               /\ results_json'[u].last_commit = meta[u]
               /\ added[u].published # NoDate
                    => results_json'[u].published = added[u].published
               /\ added[u].published = NoDate
                    => results_json'[u].published = added[u].created_at ]_vars

\* C7 witness: a results.json with one record whose DOI date differs from its
\* add date and one record without DOI date.
C7_Witness ==
    /\ pristine
    /\ pc = "done"
    /\ wrote_results
    /\ \E u, v \in DOMAIN results_json :
         /\ results_json[u].zenodo_published # NoDate
         /\ results_json[u].zenodo_published # results_json[u].added_rsepedia
         /\ results_json[u].published = results_json[u].zenodo_published
         /\ results_json[v].zenodo_published = NoDate
         /\ results_json[v].published = results_json[v].added_rsepedia

\* C12: a catalog entry without url is excluded entirely: none of the three
\* stores on disk ever holds an entry made for it (json.dumps would write
\* its key None as "null").
C12_NoUrlEntryExcluded ==
    /\ JsonNull \notin DOMAIN added_json
    /\ JsonNull \notin DOMAIN times_json
    /\ JsonNull \notin DOMAIN results_json


\* A second run on the output directory of a completed run, the catalog
\* unchanged: prev holds the two stores as the first run left them.
SecondRun == prev.rerun

\* C13 as stated: the second run leaves both persisted stores identical to
\* what they were after the first run, and makes no DOI lookup, log query or
\* clone for a URL already present in the respective store.
C13_SecondRunIdentical ==
    [][ SecondRun =>
          /\ pc' = "done" => (added_json' = prev.added /\ times_json' = prev.times)
          /\ \A u \in URLS :
               /\ u \in DOMAIN prev.added =>
                    (<<"doi", u>> \notin ops' /\ <<"log", u>> \notin ops')
               /\ u \in DOMAIN prev.times => <<"clone", u>> \notin ops' ]_vars

\* C13 amended: the second run keeps every URL-keyed entry of both stores as
\* the first run left it, adds no key to rsepedia-times.json, makes no DOI
\* lookup, log query or clone for a URL already present in the respective
\* store, and adds ActivityRecords only for catalog URLs that had none.
C13_SecondRunKeepsEntries ==
    [][ SecondRun =>
          /\ DOMAIN added_json' = DOMAIN prev.added
          /\ \A u \in URLS \cap DOMAIN prev.added :
               /\ added_json'[u] = prev.added[u]
               /\ <<"doi", u>> \notin ops'
               /\ <<"log", u>> \notin ops'
          /\ \A u \in DOMAIN prev.times :
               /\ u \in DOMAIN times_json'
               /\ times_json'[u] = prev.times[u]
               /\ <<"clone", u>> \notin ops'
          /\ \A u \in DOMAIN times_json' \ DOMAIN prev.times :
               \E k \in DOMAIN catalog : catalog[k] = u /\ u \in URLS ]_vars

\* C13 witness: the second run has completed; it skipped one URL that both
\* stores held and added the ActivityRecord of another whose clone had
\* failed in the first run.
C13_Witness ==
    /\ SecondRun
    /\ pristine
    /\ pc = "done"
    /\ \E u \in URLS \cap DOMAIN prev.times : u \in DOMAIN prev.added
    /\ \E u \in URLS : u \in DOMAIN times_json /\ u \notin DOMAIN prev.times

\* C14: in the last-commit phase, when the next catalog entry begins (or
\* the loop ends), the scratch subdirectory of every URL processed so far in
\* this run no longer exists, however its processing ended.
C14_ScratchRemovedBeforeNext ==
    pc = "clone" =>
        \A k \in DOMAIN catalog : k < i => BaseName(catalog[k]) \notin scratch

\* The run started from an empty ActivityRecord store and the removal of the
\* current entry's clone fails; the entries processed before it, all cloned,
\* measured and cleaned up, are the keys of meta other than the current url.
CleanupFailsFromEmpty == prev.times = Empty /\ pc = "cleanup" /\ pc' = "exited"
MeasuredBefore == DOMAIN meta \ {catalog[i]}

\* C15 as stated: after N entries cloned, measured and cleaned up from an
\* empty store, a cleanup failure on the next entry leaves exactly N entries
\* in last-commit-times.json and a non-zero exit status.
C15_ExactlyNEntries ==
    [][ CleanupFailsFromEmpty =>
          /\ Cardinality(DOMAIN times_json') = Cardinality(MeasuredBefore)
          /\ exit_status' > 0 ]_vars

\* C15 amended: the file holds the N earlier entries, and also the entry
\* whose cleanup failed when its last commit had been extracted (N + 1
\* entries); N entries only when that extraction had raised.
C15_NPlusMeasuredEntry ==
    [][ CleanupFailsFromEmpty =>
          /\ MeasuredBefore \subseteq DOMAIN times_json'
          /\ \A u \in MeasuredBefore : times_json'[u] = meta[u]
          /\ Cardinality(DOMAIN times_json') =
                Cardinality(MeasuredBefore)
                  + (IF catalog[i] \in DOMAIN meta THEN 1 ELSE 0)
          /\ catalog[i] \in DOMAIN meta => times_json'[catalog[i]] = meta[catalog[i]]
          /\ exit_status' > 0 ]_vars

\* C15 witness: from an empty store one entry was measured and cleaned up,
\* the second was measured and its cleanup failed: the file holds both.
C15_Witness ==
    /\ prev.times = Empty
    /\ runs = 1
    /\ pc = "exited"
    /\ exit_status = 1
    /\ Len(catalog) = 2
    /\ DOMAIN times_json = { catalog[k] : k \in DOMAIN catalog }

\* The identifiers of a doi field that contain "zenodo", and the first of them.
MatchingAt(dd) == { k \in DOMAIN dd.ids : dd.ids[k] \in ZenodoIds }
FirstMatching(dd) == dd.ids[CHOOSE k \in MatchingAt(dd) : \A j \in MatchingAt(dd) : k <= j]

\* C16: when the doi field of an entry holds at least one identifier that
\* contains "zenodo", look_for_doi looks that first matching identifier up
\* and returns it, wherever it stands in the list.
C16_FirstMatchingResolved ==
    [][ (pc = "dates" /\ i' = i + 1 /\ catalog[i] \notin DOMAIN added
            /\ MatchingAt(doi_data') # {})
          => /\ added'[catalog[i]].doi = FirstMatching(doi_data')
             /\ <<"doi", catalog[i]>> \in ops' ]_vars

\* C18: on an output directory that only this pipeline has written, over
\* complete, crashed and restarted runs with changing catalogs, every key of
\* last-commit-times.json is a key of rsepedia-times.json, and when the
\* combination step runs every key of meta is a key of added: the lookup
\* added[url] of that step does not fail.
C18_ActivityKeysHaveDateBundles ==
    pristine =>
        /\ DOMAIN times_json \subseteq DOMAIN added_json
        /\ pc = "combine" =>
              /\ DOMAIN times_json \subseteq DOMAIN added
              /\ DOMAIN meta \subseteq DOMAIN added

\* C18 witness: after an earlier run and a restart with a changed catalog,
\* the combination step is about to run with an ActivityRecord of a URL the
\* current catalog no longer lists, next to one of a URL it lists.
C18_Witness ==
    /\ pristine
    /\ runs = 2
    /\ pc = "combine"
    /\ \E u \in DOMAIN meta : \A k \in DOMAIN catalog : catalog[k] # u
    /\ \E u \in DOMAIN meta : \E k \in DOMAIN catalog : catalog[k] = u

\* ------------------------------------------------------------- classifier

\* The collection pipeline is not running.
PipelineIdle ==
    /\ catalog = <<>>
    /\ added_json = Empty
    /\ times_json = Empty
    /\ results_json = Empty
    /\ added = Empty
    /\ meta = Empty
    /\ pc = "idle"
    /\ i = 1
    /\ dest = NoDest
    /\ scratch = {}
    /\ exit_status = -1
    /\ runs = 1
    /\ ops = {}
    /\ wrote_results = FALSE
    /\ pristine = TRUE
    /\ prev = [rerun |-> FALSE, added |-> Empty, times |-> Empty]
    /\ doi_data = NoDoiData

InitClassify ==
    /\ PipelineIdle
    /\ results \in ResultsInputs
    /\ today \in Todays
    /\ df = Empty
    /\ month = 0
    /\ updated_at_period = <<>>
    /\ updated_percents = <<>>
    /\ high_valued = Empty
    /\ high_valued_relative = Empty
    /\ high_valued_global = {}
    /\ cpc = "main"

\* plot-activity.py main lines 50-55: read results.json into the data frame.
Prepare ==
    /\ cpc = "main"
    /\ df' = PrepareDataFrame(results)
    /\ cpc' = "months"
    /\ UNCHANGED <<results, today, month, updated_at_period, updated_percents,
                   high_valued, high_valued_relative, high_valued_global, pvars>>

\* derive_high_valued lines 81-116, one iteration with a non-empty not_future.
MonthStep ==
    /\ cpc = "months"
    /\ month <= LastMonth
    /\ NotFuture(month) # {}
    /\ updated_at_period' = Append(updated_at_period, Cardinality(UpdatedRepos(month)))
    /\ updated_percents' =
         Append(updated_percents,
                <<Cardinality(UpdatedRepos(month)), Cardinality(NotFuture(month))>>)
    /\ IF month >= LongTerm
       THEN /\ high_valued' = Put(high_valued, month, UpdatedRepos(month))
            /\ high_valued_relative' = Put(high_valued_relative, month, Relative(month))
            /\ high_valued_global' = high_valued_global \cup Relative(month)
       ELSE UNCHANGED <<high_valued, high_valued_relative, high_valued_global>>
    /\ month' = month + 1
    /\ UNCHANGED <<results, today, df, cpc, pvars>>

\* derive_high_valued lines 84-102 with not_future empty: the division of
\* line 102 raises ZeroDivisionError and the script ends with a traceback.
MonthZeroDivision ==
    /\ cpc = "months"
    /\ month <= LastMonth
    /\ NotFuture(month) = {}
    /\ updated_at_period' = Append(updated_at_period, Cardinality(UpdatedRepos(month)))
    /\ cpc' = "error"
    /\ UNCHANGED <<results, today, df, month, updated_percents,
                   high_valued, high_valued_relative, high_valued_global, pvars>>

\* derive_high_valued lines 118-139: the plots and the three JSON artifacts.
WriteArtifacts ==
    /\ cpc = "months"
    /\ month > LastMonth
    /\ cpc' = "done"
    /\ UNCHANGED <<results, today, df, month, updated_at_period, updated_percents,
                   high_valued, high_valued_relative, high_valued_global, pvars>>

NextClassify ==
    \/ Prepare
    \/ MonthStep
    \/ MonthZeroDivision
    \/ WriteArtifacts

SpecClassify == InitClassify /\ [][NextClassify]_vars

\* ------------------------------------------------------ claims: classifier

\* Calendar order of two days, by counting.
DayOrdinal(ts) == (ts[1] * 12 + ts[2]) * 31 + ts[3]
\* A row of results.json whose last commit day is strictly after its
\* publication day plus M months.
StillUpdated(row, M) ==
    DayOrdinal(DayOf(row.last_commit)) > DayOrdinal(DateOffset(DayOf(row.published), M))
StillUpdatedRows(M) == { r \in DOMAIN results : StillUpdated(results[r], M) }

\* C8: for every month offset M computed, a repository is counted in the
\* absolute still-updated count of M iff its last commit (day) is strictly
\* after published (day) + M months; a last commit exactly at the boundary is
\* not counted; published 2020-01-01 with last commit 2022-06-01 is high value
\* at month 24 and not at month 30.
C8_StrictlyAfterOffset ==
    /\ \A k \in 1..Len(updated_at_period) :
         updated_at_period[k] = Cardinality(StillUpdatedRows(k - 1))
    /\ \A M \in DOMAIN high_valued :
         /\ high_valued[M] = StillUpdatedRows(M)
         /\ \A r \in DOMAIN results :
              DayOf(results[r].last_commit) = DateOffset(DayOf(results[r].published), M)
                 => r \notin high_valued[M]
    /\ \A r \in DOMAIN results :
         (DayOf(results[r].published) = <<2020, 1, 1, 0>>
            /\ DayOf(results[r].last_commit) = <<2022, 6, 1, 0>>)
         => /\ 24 \in DOMAIN high_valued => r \in high_valued[24]
            /\ 30 \in DOMAIN high_valued => r \notin high_valued[30]

\* C8 witness: months 0..30 are done for a data set holding the example
\* repository and one whose last commit is exactly at published + 24 months.
C8_Witness ==
    /\ Len(updated_at_period) > 30
    /\ \E r, q \in DOMAIN results :
         /\ DayOf(results[r].published) = <<2020, 1, 1, 0>>
         /\ DayOf(results[r].last_commit) = <<2022, 6, 1, 0>>
         /\ r \in high_valued[24]
         /\ r \notin high_valued[30]
         /\ DayOf(results[q].last_commit) = DateOffset(DayOf(results[q].published), 24)
         /\ q \notin high_valued[24]
         /\ updated_at_period[25] = 1

\* C9: the percentage of month M counts, above and below the line, only the
\* repositories whose published + M months is before now; so it never
\* exceeds 1.
C9_PercentOfElapsedOnly ==
    \A k \in 1..Len(updated_percents) :
        /\ updated_percents[k][1] = Cardinality(StillUpdatedRows(k - 1) \cap NotFuture(k - 1))
        /\ updated_percents[k][2] = Cardinality(NotFuture(k - 1))
        /\ updated_percents[k][1] <= updated_percents[k][2]

\* C10: when no repository is not-future at month M the classifier goes on to
\* the next month; it does not end on a division error.
C10_ZeroDenominatorGoesOn ==
    [][ (cpc = "months" /\ month <= LastMonth /\ NotFuture(month) = {})
          => (cpc' = "months" /\ month' = month + 1) ]_vars

\* C11: every repository of month M's relative set (M in 24..40), and so
\* every repository of the global accumulator, is high value at M: its last
\* commit is strictly after published + M months.
C11_RelativeIsHighValue ==
    /\ \A M \in DOMAIN high_valued_relative :
         \A r \in high_valued_relative[M] : StillUpdated(results[r], M)
    /\ \A r \in high_valued_global :
         \E M \in LongTerm..LastMonth : StillUpdated(results[r], M)

\* Calendar order of two instants, by counting (time of day is 0 or 1).
TimeOrdinal(ts) == DayOrdinal(ts) * 2 + ts[4]
\* published (day) + M months of a row of results.json, as an instant.
PublishedPlus(r, M) == TimeOrdinal(DateOffset(DayOf(results[r].published), M))

\* C17: for every month M in 24..40 computed, a repository is in month M's
\* relative set iff published + M months < now and published + (M+1)
\* months >= now; one whose published + (M+1) months is exactly now is in.
C17_RelativeIffNextNotBeforeNow ==
    \A M \in DOMAIN high_valued_relative :
        high_valued_relative[M] =
            { r \in DOMAIN results :
                /\ PublishedPlus(r, M) < TimeOrdinal(today)
                /\ PublishedPlus(r, M + 1) >= TimeOrdinal(today) }

\* C19: the high-value sets are nested over the month grid: in the data frame
\* the month loop starts with (and never changes), a repository that is
\* high value at month M+1 is high value at month M (M in 0..39), the
\* absolute still-updated counts never increase with M, and the list of
\* highest-value.json for month M+1 is a subset of the list for month M.
C19_HighValueNested ==
    /\ (cpc = "months" /\ month = 0) =>
         \A M \in 0..(LastMonth - 1) : \A r \in DOMAIN df :
            IsHighValue(r, M + 1) => IsHighValue(r, M)
    /\ \A k \in 1..(Len(updated_at_period) - 1) :
         updated_at_period[k + 1] <= updated_at_period[k]
    /\ \A M \in DOMAIN high_valued :
         (M + 1) \in DOMAIN high_valued => high_valued[M + 1] \subseteq high_valued[M]

\* C19 witness: all 41 months are done and the artifacts written; one
\* repository drops out of the high-value set between months 28 and 29 while
\* another stays in it.
C19_Witness ==
    /\ cpc = "done"
    /\ Len(updated_at_period) = LastMonth + 1
    /\ high_valued[29] # {}
    /\ high_valued[29] # high_valued[28]
    /\ updated_at_period[30] < updated_at_period[29]

\* The repositories whose published + M months < now < published + (M+1)
\* months for some M in 24..40.
InLastWindow(r, M) ==
    /\ PublishedPlus(r, M) < TimeOrdinal(today)
    /\ TimeOrdinal(today) < PublishedPlus(r, M + 1)
LastWindowRows ==
    { r \in DOMAIN results : \E M \in LongTerm..LastMonth : InLastWindow(r, M) }

====
